---- MODULE Spec2Model ----
(***************************************************************************)
(* WeRead -> Readwise sync (src/weread.py).                                *)
(*                                                                         *)
(* Text is modelled as a sequence of one-character strings, JSON values as *)
(* tagged records, so that str(), int(), isdigit(), the cookie regex, the  *)
(* text cleanup and the f-string formatting are computed character by      *)
(* character as the Python code computes them.                             *)
(***************************************************************************)
EXTENDS Integers, Sequences, FiniteSets, TLC

VARIABLES
    pc,             \* position of main(): "start", "shelf", "bm", "rv", "total", "post", "done", "usage", "crashed"
    env,            \* the process environment read by main()
    now,            \* int(time.time()) during the run
    user_vid,       \* main: user_vid
    days,           \* main: only_recent_days_int (a JSON-like value, Null = None)
    books,          \* main: books
    i,              \* main: index of the current book (1-based, as enumerate(books, 1))
    all_highlights, \* main: all_highlights
    curhs,          \* main: hs of the current book
    log,            \* the per-book console lines printed so far
    calls,          \* source-API requests issued so far, in order
    writes,         \* destination write requests issued so far, in order, with their outcome
    start,          \* main: start of the chunk loop
    sent,           \* main: sent
    printed,        \* the other console lines printed so far, in order
    cause,          \* why the process ended abnormally
    fn_in,          \* input of the function under study (function-level specifications)
    fn_out          \* its result

vars == <<pc, env, now, user_vid, days, books, i, all_highlights, curhs, log,
          calls, writes, start, sent, printed, cause, fn_in, fn_out>>

-----------------------------------------------------------------------------
(* Characters and strings                                                  *)

SP  == " "
TAB == "\t"
LF  == "\n"
CR  == "\r"

DigitChars == <<"0", "1", "2", "3", "4", "5", "6", "7", "8", "9">>

Digits == {DigitChars[k] : k \in 1..Len(DigitChars)}

\* str.strip() with no argument strips these (the ones the model's texts use)
Whitespace == {SP, TAB, LF, CR}

\* str.isdigit()
IsDigit(s) == s # <<>> /\ \A k \in 1..Len(s) : s[k] \in Digits

RECURSIVE NatToStr(_)
NatToStr(n) == IF n < 10 THEN <<DigitChars[n + 1]>>
               ELSE NatToStr(n \div 10) \o <<DigitChars[(n % 10) + 1]>>

\* str(n) of an int
IntToStr(n) == IF n < 0 THEN <<"-">> \o NatToStr(0 - n) ELSE NatToStr(n)

DigitVal(c) == CHOOSE d \in 0..9 : DigitChars[d + 1] = c

RECURSIVE StrToNat(_)
StrToNat(s) == IF s = <<>> THEN 0
               ELSE 10 * StrToNat(SubSeq(s, 1, Len(s) - 1)) + DigitVal(s[Len(s)])

\* str.strip()
RECURSIVE LStrip(_)
LStrip(s) == IF s # <<>> /\ s[1] \in Whitespace THEN LStrip(Tail(s)) ELSE s

RECURSIVE RStrip(_)
RStrip(s) == IF s # <<>> /\ s[Len(s)] \in Whitespace
             THEN RStrip(SubSeq(s, 1, Len(s) - 1)) ELSE s

Strip(s) == RStrip(LStrip(s))

-----------------------------------------------------------------------------
(* JSON values as Python sees them                                         *)

Null   == [t |-> "null", s |-> <<>>, n |-> 0]      \* None, also a missing key under .get()
S(str) == [t |-> "str", s |-> str, n |-> 0]
I(num) == [t |-> "int", s |-> <<>>, n |-> num]

\* truth value of a Python object
Truthy(v) == \/ v.t = "str" /\ v.s # <<>>
             \/ v.t = "int" /\ v.n # 0

\* a or b
Or(a, b) == IF Truthy(a) THEN a ELSE b

\* str(v)
PyStr(v) == CASE v.t = "str" -> v.s
              [] v.t = "int" -> IntToStr(v.n)
              [] OTHER       -> <<"N", "o", "n", "e">>

\* int(v) succeeds
IntOk(v) == \/ v.t = "int"
            \/ v.t = "str" /\ LET b == Strip(v.s) IN
                 \/ IsDigit(b)
                 \/ b # <<>> /\ b[1] \in {"-", "+"} /\ IsDigit(Tail(b))

\* int(v), where it succeeds
PyInt(v) == IF v.t = "int" THEN v.n
            ELSE LET b == Strip(v.s) IN
                 IF b[1] = "-" THEN 0 - StrToNat(Tail(b))
                 ELSE IF b[1] = "+" THEN StrToNat(Tail(b))
                 ELSE StrToNat(b)

-----------------------------------------------------------------------------
(* _clean_text                                                             *)

\* s.replace("\r\n", "\n").replace("\r", "\n")
RECURSIVE NormalizeNewlines(_)
NormalizeNewlines(s) ==
    IF s = <<>> THEN <<>>
    ELSE IF s[1] = CR
         THEN IF Len(s) >= 2 /\ s[2] = LF
              THEN <<LF>> \o NormalizeNewlines(SubSeq(s, 3, Len(s)))
              ELSE <<LF>> \o NormalizeNewlines(Tail(s))
         ELSE <<s[1]>> \o NormalizeNewlines(Tail(s))

\* re.sub(r"[ \t]+", " ", s)
RECURSIVE CollapseBlanks(_)
CollapseBlanks(s) ==
    IF s = <<>> THEN <<>>
    ELSE IF s[1] \in {SP, TAB}
         THEN IF Len(s) >= 2 /\ s[2] \in {SP, TAB}
              THEN CollapseBlanks(Tail(s))
              ELSE <<SP>> \o CollapseBlanks(Tail(s))
         ELSE <<s[1]>> \o CollapseBlanks(Tail(s))

\* re.sub(r"\n{3,}", "\n\n", s)
RECURSIVE CollapseNewlines(_)
CollapseNewlines(s) ==
    IF s = <<>> THEN <<>>
    ELSE IF Len(s) >= 3 /\ s[1] = LF /\ s[2] = LF /\ s[3] = LF
         THEN CollapseNewlines(Tail(s))
         ELSE <<s[1]>> \o CollapseNewlines(Tail(s))

_clean_text(s) == Strip(CollapseNewlines(CollapseBlanks(NormalizeNewlines(s))))

\* _sha1: the digest is kept as its input between two marks, so that equal
\* digests mean equal inputs (no collision of the hash itself is modelled)
_sha1(s) == <<"#">> \o s \o <<"#">>

-----------------------------------------------------------------------------
(* WeReadClient.bookshelf                                                  *)

Book(book_id, title, author) == [book_id |-> book_id, title |-> title, author |-> author]

\* a value under a key of the shelf response: missing, a list, or something else
Absent      == [t |-> "absent", v |-> <<>>]
NotList     == [t |-> "other", v |-> <<>>]
ListOf(seq) == [t |-> "list", v |-> seq]

\* books_raw: the three sub-lists, in the fixed order of the for loop
books_raw(data) ==
    (IF data.finishReadBooks.t = "list" THEN data.finishReadBooks.v ELSE <<>>)
    \o (IF data.recentBooks.t = "list" THEN data.recentBooks.v ELSE <<>>)
    \o (IF data.allBooks.t = "list" THEN data.allBooks.v ELSE <<>>)

\* b.get(...) raises on an entry that is not an object
ShelfRaises(data) == \E k \in 1..Len(books_raw(data)) : ~books_raw(data)[k].isdict

\* a filter that lets a book through again when it comes up in a later sub-list
SkipEntry_NoDedup(book_id, seen) == ~IsDigit(book_id)

\* the two "continue" of the loop: not a book, or a book already seen
SkipEntry(book_id, seen) == ~IsDigit(book_id) \/ book_id \in seen

RECURSIVE MergeBooks(_, _, _)
MergeBooks(raw, seen, out) ==
    IF raw = <<>> THEN out
    ELSE LET b       == raw[1]
             book_id == PyStr(b.bookId)
         IN  IF SkipEntry(book_id, seen) THEN MergeBooks(Tail(raw), seen, out)
             ELSE MergeBooks(Tail(raw), seen \cup {book_id},
                             Append(out, Book(book_id,
                                              PyStr(Or(b.title, S(<<>>))),
                                              PyStr(Or(b.author, S(<<>>))))))

\* the list bookshelf() returns when it does not raise
bookshelf(data) == MergeBooks(books_raw(data), {}, <<>>)

-----------------------------------------------------------------------------
(* _unix_to_iso: datetime.fromtimestamp(ts, utc).isoformat() with "+00:00" *)
(* replaced by "Z" (proleptic Gregorian calendar, ts >= 0)                 *)

SecondsPerDay == 86400

Pad2(n) == IF n < 10 THEN <<"0">> \o NatToStr(n) ELSE NatToStr(n)

Pad4(n) == IF n < 10 THEN <<"0", "0", "0">> \o NatToStr(n)
           ELSE IF n < 100 THEN <<"0", "0">> \o NatToStr(n)
           ELSE IF n < 1000 THEN <<"0">> \o NatToStr(n)
           ELSE NatToStr(n)

_unix_to_iso(ts) ==
    LET z    == (ts \div SecondsPerDay) + 719468
        secs == ts % SecondsPerDay
        era  == z \div 146097
        doe  == z - era * 146097
        yoe  == (doe - (doe \div 1460) + (doe \div 36524) - (doe \div 146096)) \div 365
        doy  == doe - (365 * yoe + (yoe \div 4) - (yoe \div 100))
        mp   == (5 * doy + 2) \div 153
        d    == doy - ((153 * mp + 2) \div 5) + 1
        m    == IF mp < 10 THEN mp + 3 ELSE mp - 9
        y    == yoe + era * 400 + (IF m <= 2 THEN 1 ELSE 0)
    IN  Pad4(y) \o <<"-">> \o Pad2(m) \o <<"-">> \o Pad2(d) \o <<"T">>
        \o Pad2(secs \div 3600) \o <<":">> \o Pad2((secs % 3600) \div 60)
        \o <<":">> \o Pad2(secs % 60) \o <<"Z">>

-----------------------------------------------------------------------------
(* Normalizer                                                              *)

WEREAD_BASE_WEB == <<"h", "t", "t", "p", "s", ":", "/", "/", "w", "e", "r", "e", "a", "d",
                     ".", "q", "q", ".", "c", "o", "m">>

_weread_book_url(book_id) ==
    WEREAD_BASE_WEB \o <<"/", "w", "e", "b", "/", "r", "e", "a", "d", "e", "r", "/">> \o book_id

\* int(time.time())
Time == now

_should_include(ts_unix, only_recent_days) ==
    IF ~Truthy(only_recent_days) THEN TRUE
    ELSE LET cutoff == Time - only_recent_days.n * SecondsPerDay
         IN  ts_unix >= cutoff

RWHighlight(text, title, author, source_url, highlighted_at, note, location, external_id) ==
    [text |-> text, title |-> title, author |-> author, source_url |-> source_url,
     highlighted_at |-> highlighted_at, note |-> note, location |-> location,
     location_type |-> <<"w", "e", "r", "e", "a", "d">>,
     external_id |-> external_id,
     external_source |-> <<"w", "e", "r", "e", "a", "d">>]

\* a raw item with none of the keys the normalizers look at
NoItem == [isdict |-> TRUE,
           markText |-> Null, abstract |-> Null, content |-> Null, text |-> Null,
           review |-> Null, reviewContent |-> Null, note |-> Null, comment |-> Null,
           chapterUid |-> Null, range |-> Null, location |-> Null,
           createTime |-> Null, updated |-> Null, ctime |-> Null,
           bookmarkId |-> Null, reviewId |-> Null, id |-> Null]

\* an element of a list that is not an object: .get raises on it
NotAnObject == [NoItem EXCEPT !.isdict = FALSE]

WereadPrefix(book) == <<"w", "e", "r", "e", "a", "d", ":">> \o book.book_id

\* "— Chapter: " (the dash is written EM, the module being ASCII)
ChapterLabel == <<"EM", " ", "C", "h", "a", "p", "t", "e", "r", ":", " ">>

\* the chapters dict: the title the last usable entry gives a uid, Null if none
RECURSIVE ChapterTitle(_, _)
ChapterTitle(chs, uid) ==
    IF chs = <<>> THEN Null
    ELSE LET c     == chs[Len(chs)]
             cuid  == IF c.chapterUid.t = "null" THEN <<>> ELSE PyStr(c.chapterUid)
             title == PyStr(Or(c.title, S(<<>>)))
         IN  IF cuid # <<>> /\ title # <<>> /\ cuid = uid THEN S(title)
             ELSE ChapterTitle(SubSeq(chs, 1, Len(chs) - 1), uid)

\* one pass of the loop body over a bookmark item:
\* "raise", "skip" (continue) or "emit" with the record appended
HighlightOfItem(book, chapters, item, only_recent_days) ==
    IF ~item.isdict THEN [k |-> "raise"]
    ELSE
    LET highlight_text == _clean_text(PyStr(
            Or(item.markText, Or(item.abstract, Or(item.content, Or(item.text, S(<<>>)))))))
        comment0 == _clean_text(PyStr(
            Or(item.review, Or(item.reviewContent, Or(item.note, Or(item.comment, S(<<>>)))))))
        chapter_uid   == PyStr(Or(item.chapterUid, S(<<>>)))
        chapter_title == ChapterTitle(chapters, chapter_uid)
        comment == IF Truthy(chapter_title)
                   THEN IF comment0 # <<>>
                        THEN comment0 \o <<LF, LF>> \o ChapterLabel \o chapter_title.s
                        ELSE ChapterLabel \o chapter_title.s
                   ELSE comment0
        loc0     == Or(item.range, Or(item.location, Null))
        location == IF loc0.t # "null" THEN S(PyStr(loc0)) ELSE Null
        tsv      == Or(item.createTime, Or(item.updated, I(0)))
        ts       == IF PyInt(tsv) <= 0 THEN Time ELSE PyInt(tsv)
        bookmark_id == Or(item.bookmarkId, Or(item.id, S(<<>>)))
        key == book.book_id \o <<"|">> \o PyStr(Or(location, S(<<>>))) \o <<"|">> \o highlight_text
        external_id == IF Truthy(bookmark_id)
                       THEN WereadPrefix(book) \o <<":", "b", "m", ":">> \o PyStr(bookmark_id)
                       ELSE WereadPrefix(book) \o <<":", "h", ":">> \o _sha1(key)
    IN  IF highlight_text = <<>> THEN [k |-> "skip"]
        ELSE IF ~IntOk(tsv) THEN [k |-> "raise"]
        ELSE IF ~_should_include(ts, only_recent_days) THEN [k |-> "skip"]
        ELSE [k |-> "emit",
              h |-> RWHighlight(highlight_text, book.title, book.author,
                                _weread_book_url(book.book_id), _unix_to_iso(ts),
                                IF comment # <<>> THEN S(comment) ELSE Null,
                                location, external_id)]

IsEmit(r) == r.k = "emit"

\* what a loop over the items leaves: it raises if a pass raises, else out
\* holds the emitted records in the order of the items
LoopResult(passes) ==
    IF \E k \in 1..Len(passes) : passes[k].k = "raise"
    THEN [raised |-> TRUE, out |-> <<>>]
    ELSE LET emits == SelectSeq(passes, IsEmit)
         IN  [raised |-> FALSE, out |-> [k \in 1..Len(emits) |-> emits[k].h]]

HighlightLoop(book, chapters, items, only_recent_days) ==
    LoopResult([k \in 1..Len(items) |->
                   HighlightOfItem(book, chapters, items[k], only_recent_days)])

\* data: [isdict, chapters, updated], chapters and updated being Absent, NotList or ListOf(..)
_extract_highlights_from_bookmarklist(book, data, only_recent_days) ==
    IF ~data.isdict \/ data.chapters.t = "other" \/ data.updated.t = "other"
    THEN [raised |-> TRUE, out |-> <<>>]
    ELSE HighlightLoop(book, data.chapters.v, data.updated.v, only_recent_days)

\* one pass of the loop body over a review item
NoteOfItem(book, r, only_recent_days) ==
    IF ~r.isdict THEN [k |-> "raise"]
    ELSE
    LET content == _clean_text(PyStr(Or(r.content, Or(r.review, Or(r.text, S(<<>>))))))
        tsv     == Or(r.createTime, Or(r.ctime, I(0)))
        ts      == IF PyInt(tsv) <= 0 THEN Time ELSE PyInt(tsv)
        review_id == Or(r.reviewId, Or(r.id, S(<<>>)))
        key == book.book_id \o <<"|", "r", "e", "v", "i", "e", "w", "|">> \o content
        external_id == IF Truthy(review_id)
                       THEN WereadPrefix(book) \o <<":", "r", "v", ":">> \o PyStr(review_id)
                       ELSE WereadPrefix(book) \o <<":", "r", "v", "h", ":">> \o _sha1(key)
    IN  IF content = <<>> THEN [k |-> "skip"]
        ELSE IF ~IntOk(tsv) THEN [k |-> "raise"]
        ELSE IF ~_should_include(ts, only_recent_days) THEN [k |-> "skip"]
        ELSE [k |-> "emit",
              h |-> RWHighlight(content, book.title, book.author,
                                _weread_book_url(book.book_id), _unix_to_iso(ts),
                                S(<<"W", "e", "R", "e", "a", "d", " ", "n", "o", "t", "e", " ",
                                    "(", "r", "e", "v", "i", "e", "w", "/", "t", "h", "o", "u",
                                    "g", "h", "t", ")", ".">>),
                                Null, external_id)]

NoteLoop(book, reviews, only_recent_days) ==
    LoopResult([k \in 1..Len(reviews) |-> NoteOfItem(book, reviews[k], only_recent_days)])

\* data: [isdict, reviews, updated, data, items], each Absent, NotList or ListOf(..)
_extract_note_only_reviews(book, data, only_recent_days) ==
    IF ~data.isdict THEN [raised |-> TRUE, out |-> <<>>]
    ELSE LET reviews == IF data.reviews.t = "list" THEN data.reviews.v
                        ELSE IF data.updated.t = "list" THEN data.updated.v
                        ELSE IF data.data.t = "list" THEN data.data.v
                        ELSE IF data.items.t = "list" THEN data.items.v
                        ELSE <<>>
         IN  NoteLoop(book, reviews, only_recent_days)

-----------------------------------------------------------------------------
(* The process environment                                                 *)

Environ(cookie, token, vid, recent, dry) ==
    [WEREAD_COOKIE |-> cookie, READWISE_TOKEN |-> token, WEREAD_USER_VID |-> vid,
     ONLY_RECENT_DAYS |-> recent, DRY_RUN |-> dry]

\* os.environ.get(name, "") of a variable that is not set
Unset == <<>>

\* the values of the variables of main() before main() runs; the function-level
\* specifications leave them so
Idle ==
    /\ user_vid = <<>>
    /\ books = <<>>
    /\ i = 0
    /\ all_highlights = <<>>
    /\ curhs = <<>>
    /\ log = <<>>
    /\ calls = <<>>
    /\ writes = <<>>
    /\ start = 0
    /\ sent = 0
    /\ printed = <<>>
    /\ cause = "none"

mainVars == <<user_vid, books, i, all_highlights, curhs, log, calls, writes, start, sent,
              printed, cause>>

\* any instant of the run: around 2023-11-14T22:13:20Z
Clock == {1700000000, 1700000001}

-----------------------------------------------------------------------------
(* SpecShelf: WeReadClient.bookshelf on every shelf response of the bounds *)

\* most entries a shelf response has, over its three sub-lists
MaxShelfLen == 4

ShelfEntry(bookId, title) ==
    [isdict |-> TRUE, bookId |-> bookId, title |-> title, author |-> Null]

\* numeric ids as text and as number, a non-numeric id, an entry without id
ShelfEntries ==
    { ShelfEntry(S(<<"1", "2">>), S(<<"A">>)),
      ShelfEntry(I(12), Null),
      ShelfEntry(S(<<"7">>), S(<<"B">>)),
      ShelfEntry(S(<<"1", "a">>), S(<<"C">>)),
      ShelfEntry(Null, S(<<"D">>)) }

\* the values a sub-list key may have with n entries
SubListsOfLen(n) ==
    {ListOf(q) : q \in [1..n -> ShelfEntries]} \cup (IF n = 0 THEN {Absent, NotList} ELSE {})

\* how many entries each of the three sub-lists has
ShelfShapes ==
    {m \in (0..MaxShelfLen) \X (0..MaxShelfLen) \X (0..MaxShelfLen) :
        m[1] + m[2] + m[3] <= MaxShelfLen}

InitShelf ==
    /\ pc = "call"
    /\ \E m \in ShelfShapes :
         \E a \in SubListsOfLen(m[1]), b \in SubListsOfLen(m[2]), c \in SubListsOfLen(m[3]) :
            fn_in = [finishReadBooks |-> a, recentBooks |-> b, allBooks |-> c]
    /\ fn_out = <<>>
    /\ env = Environ(Unset, Unset, Unset, Unset, Unset)
    /\ now = 0
    /\ days = Null
    /\ Idle

CallBookshelf ==
    /\ pc = "call"
    /\ pc' = "return"
    /\ fn_out' = bookshelf(fn_in)
    /\ UNCHANGED <<fn_in, env, now, days, mainVars>>

NextShelf == CallBookshelf

SpecShelf == InitShelf /\ [][NextShelf]_vars

\* the sub-lists of the response that are lists, one after the other
ShelfConcat(data) ==
    LET part(x) == IF x.t = "list" THEN x.v ELSE <<>>
    IN  part(data.finishReadBooks) \o part(data.recentBooks) \o part(data.allBooks)

\* the numeric ids of a response, as text
NumericIds(data) ==
    {id \in {PyStr(ShelfConcat(data)[k].bookId) : k \in 1..Len(ShelfConcat(data))} :
        id # <<>> /\ \A n \in 1..Len(id) : id[n] \in Digits}

FirstAt(data, id) ==
    CHOOSE k \in 1..Len(ShelfConcat(data)) :
        /\ PyStr(ShelfConcat(data)[k].bookId) = id
        /\ \A j \in 1..(k - 1) : PyStr(ShelfConcat(data)[j].bookId) # id

\* C7: bookshelf returns each purely numeric id of the list-valued sub-lists
\* exactly once, nothing else, in the order of first occurrence in
\* finishReadBooks, recentBooks, allBooks.
C7_ShelfMerge ==
    pc = "return" =>
        /\ \A id \in NumericIds(fn_in) :
               Cardinality({k \in 1..Len(fn_out) : fn_out[k].book_id = id}) = 1
        /\ \A k \in 1..Len(fn_out) : fn_out[k].book_id \in NumericIds(fn_in)
        /\ \A k, l \in 1..Len(fn_out) :
               k < l => FirstAt(fn_in, fn_out[k].book_id) < FirstAt(fn_in, fn_out[l].book_id)

\* a response with a duplicate across sub-lists, a non-numeric id, an entry
\* without id and a sub-list that is not a list, merged to two books
C7_Witness ==
    /\ pc = "return"
    /\ fn_in.finishReadBooks = ListOf(<<ShelfEntry(S(<<"7">>), S(<<"B">>)),
                                        ShelfEntry(S(<<"1", "a">>), S(<<"C">>))>>)
    /\ fn_in.recentBooks = NotList
    /\ fn_in.allBooks = ListOf(<<ShelfEntry(I(12), Null), ShelfEntry(S(<<"7">>), S(<<"B">>))>>)
    /\ Len(fn_out) = 2
    /\ fn_out[1].book_id = <<"7">>
    /\ fn_out[2].book_id = <<"1", "2">>

-----------------------------------------------------------------------------
(* The recency window of main(), and the two normalizers on one raw item   *)

\* main: only_recent_days_int = int(only_recent_days) if only_recent_days else None,
\* only_recent_days being the stripped ONLY_RECENT_DAYS
WindowRaises(e) == Strip(e.ONLY_RECENT_DAYS) # <<>> /\ ~IntOk(S(Strip(e.ONLY_RECENT_DAYS)))

only_recent_days_int(e) ==
    IF Strip(e.ONLY_RECENT_DAYS) # <<>> THEN I(PyInt(S(Strip(e.ONLY_RECENT_DAYS)))) ELSE Null

BookmarkData(chapters, items) == [isdict |-> TRUE, chapters |-> chapters, updated |-> ListOf(items)]

ReviewData(items) ==
    [isdict |-> TRUE, reviews |-> ListOf(items), updated |-> Absent, data |-> Absent,
     items |-> Absent]

Raised == [raised |-> TRUE, out |-> <<>>]

NoResult == [hs |-> Raised, ns |-> Raised]

ParseWindow ==
    /\ pc = "window"
    /\ ~WindowRaises(env)
    /\ days' = only_recent_days_int(env)
    /\ pc' = "highlights"
    /\ UNCHANGED <<env, now, fn_in, fn_out, mainVars>>

NormalizeHighlights ==
    /\ pc = "highlights"
    /\ fn_out' = [fn_out EXCEPT !.hs =
           _extract_highlights_from_bookmarklist(fn_in.book,
               BookmarkData(fn_in.chapters, <<fn_in.item>>), days)]
    /\ pc' = "notes"
    /\ UNCHANGED <<env, now, days, fn_in, mainVars>>

NormalizeNotes ==
    /\ pc = "notes"
    /\ fn_out' = [fn_out EXCEPT !.ns =
           _extract_note_only_reviews(fn_in.book, ReviewData(<<fn_in.item>>), days)]
    /\ pc' = "end"
    /\ UNCHANGED <<env, now, days, fn_in, mainVars>>

NextNorm == ParseWindow \/ NormalizeHighlights \/ NormalizeNotes

Book1 == Book(<<"1">>, <<"T">>, <<"A">>)
Book2 == Book(<<"2", "1">>, <<"U">>, <<"A">>)

\* "1" and " 1 " are one day, "-1" a window that ends a day from now
Windows == {Unset, <<"0">>, <<"1">>, <<"2">>, <<"-", "1">>, <<SP, "1", SP>>}

\* the seconds a timestamp lies before the instant of the run
Ages == {(d * SecondsPerDay) + o : d \in 0..2, o \in {-1, 0, 1}}

\* where a raw item carries its time: createTime as a number or as text, the
\* second key of the highlights (updated), the second key of the notes (ctime)
Timed(item, ts) ==
    { [item EXCEPT !.createTime = I(ts)],
      [item EXCEPT !.createTime = S(NatToStr(ts))],
      [item EXCEPT !.updated = I(ts), !.ctime = I(ts)] }

\* SpecRecency: a raw item with text, of every age around the cutoffs
InitRecency ==
    /\ pc = "window"
    /\ now \in Clock
    /\ \E w \in Windows : env = Environ(Unset, Unset, Unset, w, Unset)
    /\ \E age \in Ages \cup {now} :
         \E it \in Timed([NoItem EXCEPT !.content = S(<<"a">>)], now - age) :
            fn_in = [book |-> Book1, chapters |-> Absent, item |-> it]
    /\ fn_out = NoResult
    /\ days = Null
    /\ Idle

SpecRecency == InitRecency /\ [][NextNorm]_vars

\* the values of a text field: missing, empty, blank, plain, to be cleaned
Texts == {Null, S(<<>>), S(<<SP>>), S(<<"a">>), S(<<CR, LF, "b", TAB, SP>>)}

Chapters == {Absent,
             ListOf(<<[chapterUid |-> I(3), title |-> S(<<"I">>)]>>)}

\* SpecText: a raw item with every combination of the four text fields
InitText ==
    /\ pc = "window"
    /\ now \in Clock
    /\ \E w \in {Unset, <<"1">>} : env = Environ(Unset, Unset, Unset, w, Unset)
    /\ \E t1 \in Texts, t2 \in Texts, t3 \in Texts, t4 \in Texts, ch \in Chapters,
          ts \in {Null, I(now - 2 * SecondsPerDay)} :
            fn_in = [book |-> Book1, chapters |-> ch,
                     item |-> [NoItem EXCEPT !.markText = t1, !.abstract = t2,
                                             !.content = t3, !.text = t4,
                                             !.chapterUid = S(<<"3">>),
                                             !.createTime = ts]]
    /\ fn_out = NoResult
    /\ days = Null
    /\ Idle

SpecText == InitText /\ [][NextNorm]_vars

\* the window the configuration sets, in days, and whether it sets one
WindowSet == Strip(env.ONLY_RECENT_DAYS) # <<>>
WindowDays == PyInt(S(Strip(env.ONLY_RECENT_DAYS)))

\* the timestamp of a raw item: the first of the two keys that has a value,
\* the instant of the run if neither has a positive one
ResolvedTime(first, second) ==
    LET v == IF Truthy(first) THEN first ELSE IF Truthy(second) THEN second ELSE I(0)
    IN  IF PyInt(v) <= 0 THEN now ELSE PyInt(v)

\* C8: with a window of N days set, whatever the integer N, both normalizers
\* emit a record exactly when its timestamp is at or after now - N days, and
\* with no window set they drop nothing.
C8_RecencyFilter ==
    pc = "end" =>
        LET it   == fn_in.item
            keep(ts) == ~WindowSet \/ ts >= now - WindowDays * SecondsPerDay
        IN  /\ ~fn_out.hs.raised /\ ~fn_out.ns.raised
            /\ Len(fn_out.hs.out) = 1 <=> keep(ResolvedTime(it.createTime, it.updated))
            /\ Len(fn_out.ns.out) = 1 <=> keep(ResolvedTime(it.createTime, it.ctime))

\* the text a candidate field yields after cleanup (none if it holds no text)
Cleaned(v) == IF v.t = "str" THEN _clean_text(v.s) ELSE <<>>

Candidates(item) == <<item.markText, item.abstract, item.content, item.text>>

\* C10: normalizeHighlights drops an item for lack of text only if none of
\* markText, abstract, content, text is non-empty after cleanup; otherwise the
\* emitted text is the cleaned value of the first field that is; no record
\* has empty text.
C10_TextResolution ==
    pc \in {"notes", "end"} =>
        LET c      == Candidates(fn_in.item)
            having == {k \in 1..4 : Cleaned(c[k]) # <<>>}
            first  == CHOOSE k \in having : \A j \in having : k <= j
            fresh  == ~WindowSet \/ fn_in.item.createTime = Null
            out    == fn_out.hs.out
        IN  /\ ~fn_out.hs.raised
            /\ \A k \in 1..Len(out) : out[k].text # <<>>
            /\ having = {} => out = <<>>
            /\ (having # {} /\ fresh) => (Len(out) = 1 /\ out[1].text = Cleaned(c[first]))

-----------------------------------------------------------------------------
(* SpecIds: the external ids of two raw items, normalized one after the    *)
(* other, each in its own book, kind, window and position in its list      *)

IdItems ==
    { [NoItem EXCEPT !.content = S(<<"c">>)],
      [NoItem EXCEPT !.content = S(<<SP, "c", CR>>)],
      [NoItem EXCEPT !.content = S(<<"d">>)],
      [NoItem EXCEPT !.content = S(<<"c">>), !.range = S(<<"8", "-", "9">>)],
      [NoItem EXCEPT !.content = S(<<"c">>), !.location = S(<<"8", "-", "9">>)],
      [NoItem EXCEPT !.content = S(<<"c">>), !.range = S(<<"a", "|", "b">>)],
      [NoItem EXCEPT !.content = S(<<"b", "|", "c">>), !.range = S(<<"a">>)],
      [NoItem EXCEPT !.content = S(<<"c">>), !.id = S(<<"5">>)],
      [NoItem EXCEPT !.content = S(<<"d">>), !.id = I(5), !.createTime = I(1600000000)],
      [NoItem EXCEPT !.content = S(<<"c">>), !.bookmarkId = S(<<"5">>), !.reviewId = S(<<"6">>)],
      [NoItem EXCEPT !.content = S(<<"c">>), !.bookmarkId = S(<<"6">>), !.id = S(<<"5">>)] }

\* an item with an id and no time, which every window of IdWindows keeps
Filler == [NoItem EXCEPT !.content = S(<<"f">>), !.id = S(<<"0">>)]

IdWindows == {Null, I(4000)}

IdCalls ==
    [book : {Book1, Book2}, kind : {"highlight", "note"}, item : IdItems,
     window : IdWindows, before : {<<>>, <<Filler>>}]

Normalize(call) ==
    IF call.kind = "highlight"
    THEN _extract_highlights_from_bookmarklist(call.book,
             BookmarkData(Absent, call.before \o <<call.item>>), call.window)
    ELSE _extract_note_only_reviews(call.book,
             ReviewData(call.before \o <<call.item>>), call.window)

InitIds ==
    /\ pc = "first"
    /\ now \in Clock
    /\ \E a \in IdCalls, b \in IdCalls :
          /\ a.window = Null /\ a.before = <<>>
          /\ fn_in = [a |-> a, b |-> b]
    /\ fn_out = [a |-> Raised, b |-> Raised]
    /\ env = Environ(Unset, Unset, Unset, Unset, Unset)
    /\ days = Null
    /\ Idle

NormalizeFirst ==
    /\ pc = "first"
    /\ fn_out' = [fn_out EXCEPT !.a = Normalize(fn_in.a)]
    /\ pc' = "later"
    /\ UNCHANGED <<env, now, days, fn_in, mainVars>>

\* the second run happens later
TimePasses ==
    /\ pc = "later"
    /\ \E dt \in {0, SecondsPerDay} : now' = now + dt
    /\ pc' = "second"
    /\ UNCHANGED <<env, days, fn_in, fn_out, mainVars>>

NormalizeSecond ==
    /\ pc = "second"
    /\ fn_out' = [fn_out EXCEPT !.b = Normalize(fn_in.b)]
    /\ pc' = "end"
    /\ UNCHANGED <<env, now, days, fn_in, mainVars>>

NextIds == NormalizeFirst \/ TimePasses \/ NormalizeSecond

SpecIds == InitIds /\ [][NextIds]_vars

\* the explicit identifier of a raw item of a call, as text (empty: none)
ExplicitId(call) ==
    LET v == IF call.kind = "highlight"
             THEN (IF Truthy(call.item.bookmarkId) THEN call.item.bookmarkId ELSE call.item.id)
             ELSE (IF Truthy(call.item.reviewId) THEN call.item.reviewId ELSE call.item.id)
    IN  IF Truthy(v) THEN PyStr(v) ELSE <<>>

\* the record a call emitted for its item: the last one
Emitted(call, res) == ~res.raised /\ Len(res.out) = Len(call.before) + 1
RecordOf(res) == res.out[Len(res.out)]

\* C9: the external ids of two emitted records are equal exactly when the
\* records are of the same book and kind and carry the same explicit
\* identifier or, both lacking one, have equal location and cleaned text;
\* the time, the window and the position of the item play no part.
C9_ExternalIdKey ==
    (pc = "end" /\ Emitted(fn_in.a, fn_out.a) /\ Emitted(fn_in.b, fn_out.b)) =>
        LET a  == fn_in.a
            b  == fn_in.b
            ra == RecordOf(fn_out.a)
            rb == RecordOf(fn_out.b)
        IN  ra.external_id = rb.external_id
            <=> /\ a.book.book_id = b.book.book_id
                /\ a.kind = b.kind
                /\ ExplicitId(a) = ExplicitId(b)
                /\ ExplicitId(a) = <<>> => (ra.location = rb.location /\ ra.text = rb.text)

-----------------------------------------------------------------------------
(* main(): the run                                                         *)

CHUNK == 200

\* the whitespace of \s in a regular expression (the ones the model's texts use)
ReSpace == {SP, TAB, LF, CR}

\* re.search(rf"(?:^|;\s*){key}=([^;]+)", cookie): where the key of the
\* leftmost match starts, 0 if there is no match
KeyStarts(cookie, key) ==
    {p \in 1..Len(cookie) :
        /\ p + Len(key) + 1 <= Len(cookie)
        /\ SubSeq(cookie, p, p + Len(key)) = key \o <<"=">>
        /\ cookie[p + Len(key) + 1] # ";"
        /\ \/ p = 1
           \/ \E q \in 1..(p - 1) :
                 /\ cookie[q] = ";"
                 /\ \A j \in (q + 1)..(p - 1) : cookie[j] \in ReSpace}

RECURSIVE UpToSemicolon(_)
UpToSemicolon(s) == IF s = <<>> \/ s[1] = ";" THEN <<>> ELSE <<s[1]>> \o UpToSemicolon(Tail(s))

\* m.group(1) if m else None
_parse_cookie_value(cookie, key) ==
    IF KeyStarts(cookie, key) = {} THEN Null
    ELSE LET p == CHOOSE x \in KeyStarts(cookie, key) : \A y \in KeyStarts(cookie, key) : x <= y
         IN  S(UpToSemicolon(SubSeq(cookie, p + Len(key) + 1, Len(cookie))))

WrVid == <<"w", "r", "_", "v", "i", "d">>

\* main: user_vid after lines 376-378
ResolveUserVid(e) ==
    IF Strip(e.WEREAD_USER_VID) # <<>> THEN Strip(e.WEREAD_USER_VID)
    ELSE PyStr(Or(_parse_cookie_value(Strip(e.WEREAD_COOKIE), WrVid), S(<<>>)))

\* a preview flag that is looked for under another spelling
dry_run_AsWord == Strip(env.DRY_RUN) = <<"t", "r", "u", "e">>

\* line 389
dry_run == Strip(env.DRY_RUN) = <<"1">>

\* the console
MissingCookie == [line |-> "Missing env WEREAD_COOKIE", a |-> 0, b |-> 0]
MissingToken  == [line |-> "Missing env READWISE_TOKEN", a |-> 0, b |-> 0]
NoUserVid     == [line |-> "Could not determine userVid.", a |-> 0, b |-> 0]
NoBooks       == [line |-> "No books found on bookshelf.", a |-> 0, b |-> 0]
Total(n)      == [line |-> "Total to sync", a |-> n, b |-> 0]
Skipping      == [line |-> "DRY_RUN=1, skipping Readwise post.", a |-> 0, b |-> 0]
Posted(n, m)  == [line |-> "Posted", a |-> n, b |-> m]
Done          == [line |-> "Done.", a |-> 0, b |-> 0]

\* lines 368-392: read the environment; SystemExit on a missing credential,
\* token or user id, ValueError on a window that is not an integer
Configure ==
    /\ pc = "start"
    /\ IF Strip(env.WEREAD_COOKIE) = <<>>
       THEN /\ pc' = "usage" /\ printed' = Append(printed, MissingCookie)
            /\ UNCHANGED <<user_vid, days, cause>>
       ELSE IF Strip(env.READWISE_TOKEN) = <<>>
       THEN /\ pc' = "usage" /\ printed' = Append(printed, MissingToken)
            /\ UNCHANGED <<user_vid, days, cause>>
       ELSE IF ResolveUserVid(env) = <<>>
       THEN /\ pc' = "usage" /\ printed' = Append(printed, NoUserVid)
            /\ UNCHANGED <<user_vid, days, cause>>
       ELSE IF WindowRaises(env)
       THEN /\ pc' = "crashed" /\ cause' = "window"
            /\ user_vid' = ResolveUserVid(env)
            /\ UNCHANGED <<days, printed>>
       ELSE /\ pc' = "shelf"
            /\ user_vid' = ResolveUserVid(env)
            /\ days' = only_recent_days_int(env)
            /\ UNCHANGED <<printed, cause>>
    /\ UNCHANGED <<env, now, books, i, all_highlights, curhs, log, calls, writes, start, sent,
                   fn_in, fn_out>>

\* a request to the source API, with what came back
Call(op, arg, reply) == [op |-> op, arg |-> arg, reply |-> reply]

Reply(k, n) == [k |-> k, n |-> n]

\* most books a shelf of the run has
MaxBooks == 2

\* the shelf request fails, an entry is not an object, or n books come back
ShelfReplies ==
    {Reply("fail", 0), Reply("notobject", 0)} \cup {Reply("books", n) : n \in 0..MaxBooks}

\* n books in finishReadBooks, seen again in recentBooks behind an account
ShelfData(reply) ==
    LET entries == [k \in 1..reply.n |-> ShelfEntry(S(NatToStr(k)), S(<<"T">> \o NatToStr(k)))]
    IN  [finishReadBooks |-> ListOf(entries),
         recentBooks |-> ListOf(<<ShelfEntry(S(<<"M", "P">>), S(<<"P">>))>> \o entries
                                \o (IF reply.k = "notobject" THEN <<NotAnObject>> ELSE <<>>)),
         allBooks |-> Absent]

\* lines 394-397: fetch the shelf; the request or the merge may raise
Bookshelf ==
    /\ pc = "shelf"
    /\ \E reply \in ShelfReplies :
          /\ calls' = Append(calls, Call("shelf", user_vid, reply))
          /\ IF reply.k = "fail" \/ ShelfRaises(ShelfData(reply))
             THEN /\ pc' = "crashed" /\ cause' = "shelf"
                  /\ UNCHANGED <<books, i, printed>>
             ELSE /\ books' = bookshelf(ShelfData(reply))
                  /\ IF books' = <<>>
                     THEN pc' = "done" /\ printed' = Append(printed, NoBooks) /\ i' = i
                     ELSE pc' = "bm" /\ i' = 1 /\ printed' = printed
                  /\ cause' = cause
    /\ UNCHANGED <<env, now, user_vid, days, all_highlights, curhs, log, writes, start, sent,
                   fn_in, fn_out>>

\* the per-book console line
BookLine(idx, status, highlights, notes) ==
    [i |-> idx, of |-> Len(books), title |-> books[idx].title, status |-> status,
     highlights |-> highlights, notes |-> notes]

BmItem(j) == [NoItem EXCEPT !.markText = S(<<"h">>), !.bookmarkId = I(j)]
RvItem(j) == [NoItem EXCEPT !.content = S(<<"n">>), !.reviewId = I(j)]

\* the bookmark request fails, the answer is not an object, the second item
\* has a time that is not a number, or n highlights come back
BookmarkReplies ==
    {Reply("fail", 0), Reply("badtime", 2), Reply("items", 1), Reply("items", CHUNK)}

BookmarkDataOf(reply) ==
    IF reply.k = "badtime"
    THEN BookmarkData(Absent, <<BmItem(1), [BmItem(2) EXCEPT !.createTime = S(<<"x">>)]>>)
    ELSE BookmarkData(Absent, [j \in 1..reply.n |-> BmItem(j)])

\* the review request fails, an item is not an object, or n notes come back
ReviewReplies ==
    {Reply("fail", 0), Reply("notobject", 2), Reply("items", 1)}

ReviewDataOf(reply) ==
    IF reply.k = "notobject"
    THEN ReviewData(<<RvItem(1), NotAnObject>>)
    ELSE ReviewData([j \in 1..reply.n |-> RvItem(j)])

\* the end of one pass of the book loop
NextBook ==
    IF i = Len(books) THEN pc' = "total" /\ i' = i ELSE pc' = "bm" /\ i' = i + 1

\* a handler that leaves the loop at the first book that fails
BookFailed_Break ==
    /\ log' = Append(log, BookLine(i, "ERROR", 0, 0))
    /\ pc' = "total" /\ i' = i
    /\ cause' = cause

\* no handler: the exception of a book leaves main()
BookFailed_Uncaught ==
    /\ pc' = "crashed" /\ cause' = "book"
    /\ UNCHANGED <<log, i>>

\* lines 411-412: the exception of a book is printed, the loop goes on
BookFailed ==
    /\ log' = Append(log, BookLine(i, "ERROR", 0, 0))
    /\ NextBook
    /\ cause' = cause

\* lines 402-404, and 411-412 when they raise
FetchHighlights ==
    /\ pc = "bm"
    /\ \E reply \in BookmarkReplies :
          LET hs == _extract_highlights_from_bookmarklist(books[i], BookmarkDataOf(reply), days)
          IN  /\ calls' = Append(calls, Call("bookmarklist", books[i].book_id, reply))
              /\ IF reply.k = "fail" \/ hs.raised
                 THEN /\ BookFailed
                      /\ UNCHANGED <<all_highlights, curhs>>
                 ELSE /\ all_highlights' = all_highlights \o hs.out
                      /\ curhs' = hs.out
                      /\ pc' = "rv"
                      /\ UNCHANGED <<log, i, cause>>
    /\ UNCHANGED <<env, now, user_vid, days, books, writes, start, sent, printed,
                   fn_in, fn_out>>

\* lines 406-410, and 411-412 when they raise
FetchNotes ==
    /\ pc = "rv"
    /\ \E reply \in ReviewReplies :
          LET ns == _extract_note_only_reviews(books[i], ReviewDataOf(reply), days)
          IN  /\ calls' = Append(calls, Call("review", books[i].book_id, reply))
              /\ IF reply.k = "fail" \/ ns.raised
                 THEN /\ BookFailed
                      /\ UNCHANGED all_highlights
                 ELSE /\ all_highlights' = all_highlights \o ns.out
                      /\ log' = Append(log, BookLine(i, "ok", Len(curhs), Len(ns.out)))
                      /\ NextBook
                      /\ cause' = cause
    /\ UNCHANGED <<env, now, user_vid, days, books, curhs, writes, start, sent, printed,
                   fn_in, fn_out>>

\* lines 415-421
ReportTotal ==
    /\ pc = "total"
    /\ IF dry_run
       THEN /\ printed' = printed \o <<Total(Len(all_highlights)), Skipping>>
            /\ pc' = "done"
       ELSE /\ printed' = Append(printed, Total(Len(all_highlights)))
            /\ pc' = "post"
    /\ start' = 0
    /\ sent' = 0
    /\ UNCHANGED <<env, now, user_vid, days, books, i, all_highlights, curhs, log, calls, writes,
                   cause, fn_in, fn_out>>

Min(a, b) == IF a <= b THEN a ELSE b

\* a write request: rejected (error status or transport error), accepted, or
\* accepted with a response that is not a JSON object
PostOutcomes == {"rejected", "ok", "unreadable"}

\* a slice that takes one record too many
ChunkFrom_OneMore(from) ==
    SubSeq(all_highlights, from + 1, Min(from + CHUNK + 1, Len(all_highlights)))

\* line 423: all_highlights[start : start + CHUNK]
ChunkFrom(from) == SubSeq(all_highlights, from + 1, Min(from + CHUNK, Len(all_highlights)))

\* a failed write that is passed over: the loop goes on with the next chunk
WriteRaises_Swallowed ==
    /\ start' = start + CHUNK
    /\ UNCHANGED <<pc, cause, sent, printed>>

\* line 426: post_highlights raises (lines 203-205) and nothing catches it
WriteRaises ==
    /\ pc' = "crashed" /\ cause' = "post"
    /\ UNCHANGED <<sent, printed, start>>

\* lines 422-428: one pass of the chunk loop
PostChunk ==
    /\ pc = "post"
    /\ start < Len(all_highlights)
    /\ LET chunk == ChunkFrom(start)
       IN  IF chunk = <<>>
           THEN /\ start' = start + CHUNK
                /\ UNCHANGED <<pc, writes, sent, printed, cause>>
           ELSE \E outcome \in PostOutcomes :
                  /\ writes' = Append(writes, [chunk |-> chunk, outcome |-> outcome])
                  /\ IF outcome = "ok"
                     THEN /\ sent' = sent + Len(chunk)
                          /\ printed' = Append(printed, Posted(sent', Len(all_highlights)))
                          /\ start' = start + CHUNK
                          /\ UNCHANGED <<pc, cause>>
                     ELSE WriteRaises
    /\ UNCHANGED <<env, now, user_vid, days, books, i, all_highlights, curhs, log, calls,
                   fn_in, fn_out>>

\* line 430, the loop being over
Finish ==
    /\ pc = "post"
    /\ start >= Len(all_highlights)
    /\ printed' = Append(printed, Done)
    /\ pc' = "done"
    /\ UNCHANGED <<env, now, user_vid, days, books, i, all_highlights, curhs, log, calls, writes,
                   start, sent, cause, fn_in, fn_out>>

\* cookie strings, each with the wr_vid it holds (empty: none)
Cookies ==
    { [cookie |-> <<"w", "r", "_", "v", "i", "d", "=", "7">>, wr_vid |-> <<"7">>],
      [cookie |-> <<"a", "=", "1", ";", SP, "w", "r", "_", "v", "i", "d", "=", "4", "2", ";",
                    "b", "=", "2">>, wr_vid |-> <<"4", "2">>],
      [cookie |-> <<"a", "=", "1">>, wr_vid |-> <<>>],
      [cookie |-> <<"x", "w", "r", "_", "v", "i", "d", "=", "7">>, wr_vid |-> <<>>],
      [cookie |-> <<"w", "r", "_", "v", "i", "d", "=", ";", "a", "=", "1">>, wr_vid |-> <<>>],
      [cookie |-> <<SP>>, wr_vid |-> <<>>],
      [cookie |-> Unset, wr_vid |-> <<>>] }

\* the environments of the run: a complete one, every cookie string with a
\* preview, an explicit user id with a window, a missing token, a window
\* that is no number
Environs ==
    LET full  == <<"w", "r", "_", "v", "i", "d", "=", "7">>
        plain == <<"a", "=", "1">>
        tok   == <<"t">>
    IN  {Environ(full, tok, Unset, Unset, <<"0">>)}
        \cup {Environ(c.cookie, tok, Unset, Unset, <<SP, "1">>) : c \in Cookies}
        \cup {Environ(c, tok, <<"9", SP>>, <<"1">>, Unset) : c \in {plain, Unset}}
        \cup {Environ(full, t, Unset, Unset, Unset) : t \in {Unset, <<SP>>}}
        \cup {Environ(full, tok, Unset, <<"x">>, Unset)}

Init ==
    /\ pc = "start"
    /\ env \in Environs
    /\ now = 1700000000
    /\ days = Null
    /\ Idle
    /\ fn_in = <<>>
    /\ fn_out = <<>>

Next ==
    \/ Configure
    \/ Bookshelf
    \/ FetchHighlights
    \/ FetchNotes
    \/ ReportTotal
    \/ PostChunk
    \/ Finish

Spec == Init /\ [][Next]_vars

-----------------------------------------------------------------------------
(* Properties of the run                                                   *)

Terminal == {"done", "usage", "crashed"}

\* the book loop was entered and the run is past it
AfterLoop == books # <<>> /\ pc \in {"total", "post", "done", "crashed"}

IsBookmarkCall(c) == c.op = "bookmarklist"
BmCalls == SelectSeq(calls, IsBookmarkCall)

\* the k-th book was logged as failed
Failed(k) == \E j \in 1..Len(log) : log[j].i = k /\ log[j].status = "ERROR"

\* the book a record comes from, by its source url
FromBook(r, k) == r.source_url = _weread_book_url(books[k].book_id)

\* C1: a book whose processing failed at any step has no record in the
\* accumulator.
C1_FailedBookContributesNothing ==
    \A k \in 1..Len(books) :
        Failed(k) => \A n \in 1..Len(all_highlights) : ~FromBook(all_highlights[n], k)

\* the review request of a book, if one was made
ReviewCallOf(id) == CHOOSE c \in {calls[n] : n \in 1..Len(calls)} : c.op = "review" /\ c.arg = id

\* what the books k..Len(books) that did not fail are to contribute
RECURSIVE Contribution(_)
Contribution(k) ==
    IF k > Len(books) THEN <<>>
    ELSE IF Failed(k) THEN Contribution(k + 1)
    ELSE _extract_highlights_from_bookmarklist(
             books[k], BookmarkDataOf(BmCalls[k].reply), days).out
         \o _extract_note_only_reviews(
             books[k], ReviewDataOf(ReviewCallOf(books[k].book_id).reply), days).out
         \o Contribution(k + 1)

FromOkBook(r) == \E k \in 1..Len(books) : FromBook(r, k) /\ ~Failed(k)

\* C2: whatever fails, every book of the listing is attempted exactly once,
\* in listing order, its notes fetched only after its highlights, and the
\* books that do not fail contribute highlights then notes in that order.
C2_EveryBookAttempted ==
    /\ Len(BmCalls) <= Len(books)
    /\ \A k \in 1..Len(BmCalls) : BmCalls[k].arg = books[k].book_id
    /\ \A n \in 1..Len(calls) :
          calls[n].op = "review" =>
              n > 1 /\ calls[n - 1].op = "bookmarklist" /\ calls[n - 1].arg = calls[n].arg
    /\ AfterLoop =>
          /\ Len(BmCalls) = Len(books)
          /\ Len(log) = Len(books)
          /\ \A k \in 1..Len(log) : log[k].i = k
          /\ SelectSeq(all_highlights, FromOkBook) = Contribution(1)

\* the first book failed on its notes, the second did not fail
C2_Witness ==
    /\ AfterLoop
    /\ Len(books) = 2
    /\ Failed(1) /\ ~Failed(2)
    /\ calls[3].op = "review" /\ calls[3].reply.k = "fail"
    /\ Contribution(1) # <<>>

\* the wr_vid a cookie string of the model holds
CookieVid(cookie) == (CHOOSE c \in Cookies : c.cookie = cookie).wr_vid

\* the user id the configuration gives: the explicit one, else the cookie's
ExpectedUserVid ==
    IF Strip(env.WEREAD_USER_VID) # <<>> THEN Strip(env.WEREAD_USER_VID)
    ELSE CookieVid(env.WEREAD_COOKIE)

CredentialsPresent ==
    /\ Strip(env.WEREAD_COOKIE) # <<>>
    /\ Strip(env.READWISE_TOKEN) # <<>>
    /\ ExpectedUserVid # <<>>

\* the required configuration is there, and the window, if set, is a number
ConfigOk == CredentialsPresent /\ ~WindowRaises(env)

WriteFailed == \E k \in 1..Len(writes) : writes[k].outcome # "ok"

\* C3 as stated: with the required configuration present, a run ends
\* abnormally only when a destination write fails.
C3_OnlyWriteFailureIsFatal ==
    (ConfigOk /\ pc \in {"usage", "crashed"}) => (pc = "crashed" /\ cause = "post")

\* C3 as amended: with the required configuration present (and the window,
\* if set, an integer), a run ends abnormally only when the bookshelf fetch
\* fails or a destination write fails; no outcome of the per-book requests
\* ends it: each one moves the run on to the next request.
C3_ExitBehaviour ==
    ConfigOk =>
        /\ pc \in {"usage", "crashed"} => pc = "crashed" /\ cause \in {"shelf", "post"}
        /\ (pc = "crashed" /\ cause = "shelf") => (Len(calls) = 1 /\ writes = <<>>)
        /\ (pc = "crashed" /\ cause = "post") => WriteFailed
        /\ pc = "bm" => (i \in 1..Len(books) /\ Len(BmCalls) = i - 1)
        /\ pc = "rv" => (i \in 1..Len(books) /\ Len(BmCalls) = i)
        /\ pc = "post" => start = CHUNK * Len(writes)

\* a run in which both requests of a book failed and every write succeeded
C3_Witness ==
    /\ ConfigOk
    /\ pc = "done"
    /\ Len(books) = 2
    /\ Failed(1) /\ Failed(2)
    /\ writes # <<>>

RECURSIVE Batches(_)
Batches(n) == IF n = 0 THEN <<>> ELSE Batches(n - 1) \o writes[n].chunk

IsPosted(l) == l.line = "Posted"
PostedLines == SelectSeq(printed, IsPosted)

\* the run was no preview, posted every chunk and reported completion
Completed == pc = "done" /\ (\E n \in 1..Len(printed) : printed[n] = Done)

\* C4: in a run that is no preview and in which every write succeeds, the
\* batches posted, one after the other, are the accumulated list; each has 1
\* to 200 records, each but the last exactly 200; the total reported after
\* each post is the number of records posted so far, at the end all of them.
C4_ChunkedUpload ==
    Completed =>
        /\ Batches(Len(writes)) = all_highlights
        /\ \A k \in 1..Len(writes) :
              /\ writes[k].outcome = "ok"
              /\ Len(writes[k].chunk) >= 1
              /\ Len(writes[k].chunk) <= CHUNK
              /\ k < Len(writes) => Len(writes[k].chunk) = CHUNK
        /\ Len(PostedLines) = Len(writes)
        /\ \A k \in 1..Len(writes) :
              /\ PostedLines[k].a = Len(Batches(k))
              /\ PostedLines[k].b = Len(all_highlights)
        /\ sent = Len(all_highlights)

\* two full batches and a third
C4_Witness ==
    /\ Completed
    /\ Len(writes) = 3
    /\ Len(all_highlights) = 2 * CHUNK + 2

\* the k-th chunk of the accumulated list
ChunkAt(k) ==
    SubSeq(all_highlights, (k - 1) * CHUNK + 1, Min(k * CHUNK, Len(all_highlights)))

\* C5: the chunks posted are the first chunks of the list, in order, each
\* posted only after all before it succeeded; once a write fails no request
\* is made any more, the run has ended in failure and never reports "Done.".
C5_ChunkFailureIsFatal ==
    /\ [](/\ \A k \in 1..Len(writes) : writes[k].chunk = ChunkAt(k)
          /\ \A k \in 1..(Len(writes) - 1) : writes[k].outcome = "ok"
          /\ WriteFailed => /\ pc = "crashed" /\ cause = "post"
                            /\ \A n \in 1..Len(printed) : printed[n] # Done)
    /\ [][WriteFailed => (writes' = writes /\ calls' = calls /\ pc' = pc
                          /\ printed' = printed)]_vars

\* the second chunk was rejected, the first stays applied, a third is left
C5_Witness ==
    /\ Len(writes) = 2
    /\ writes[1].outcome = "ok"
    /\ writes[2].outcome = "rejected"
    /\ Len(all_highlights) > 2 * CHUNK
    /\ pc = "crashed"

====
